---- MODULE Spec2Model ----
(***************************************************************************)
(* Model of the records controller of backend_crm:                         *)
(*   src/controllers/recordController.js  (list handler with the           *)
(*       amount-filter-only branch, partial updateRecord, create, delete)  *)
(*   src/unnamed/part_000                 (cascade updateRecord,           *)
(*       getRecordById)                                                    *)
(* The document store (collections Record and User), the TTL cache and the *)
(* clock are the state; every await of a handler is one step.              *)
(***************************************************************************)
EXTENDS Integers, Sequences, FiniteSets, TLC

(***************************************************************************)
(* Bounds of the model.                                                    *)
(***************************************************************************)
MaxId == 3          \* identifiers the store hands out: 1..MaxId
MaxListReqs == 2    \* getRecords requests in progress or on record at a time
MaxNow == 6         \* the clock runs from 0 to MaxNow minutes
MaxUpdates == 1     \* cascade updateRecord requests in progress or on record
MaxUsers == 2       \* documents of the User collection

(***************************************************************************)
(* Strings are sequences of characters, so that the case-insensitive       *)
(* $regex match is computed and not assumed.                               *)
(***************************************************************************)
Absent == <<"undefined">>       \* a missing query parameter / body field
Empty == << >>                  \* the empty string ''
NonNumeric == <<"a", "b", "c">> \* a parameter parseInt/parseFloat cannot read
InfinityText == <<"Infinity">>  \* parseFloat reads it as Infinity, parseInt as NaN

EmailA == <<"a", "@", "x">>
EmailB == <<"b", "@", "x">>
Vogue == <<"V", "o", "g">>
Elle == <<"E", "l", "l", "e">>
Name == <<"N", " ", "N">>
UndefinedUndefined ==
    <<"u","n","d","e","f","i","n","e","d"," ","u","n","d","e","f","i","n","e","d">>

Ids == 1..MaxId
NoRecord == [_id |-> 0]
Uids == 1..MaxUsers
NoUser == [_id |-> 0]

(***************************************************************************)
(* JavaScript numbers as far as the handlers use them: NaN, the integers   *)
(* and Infinity.                                                           *)
(***************************************************************************)
NaN == [k |-> "nan", v |-> 0]
Infinity == [k |-> "inf", v |-> 0]
Fin(n) == [k |-> "fin", v |-> n]
Num(n) == <<"num", n>>          \* the text of the integer n in a query string

isNaN(x) == x.k = "nan"
isFinite(x) == x.k = "fin"

\* parseInt(text): NaN unless the text is that of an integer
parseInt(raw) == IF raw[1] = "num" THEN Fin(raw[2]) ELSE NaN

\* parseFloat(text): as parseInt, and "Infinity" is read as Infinity
parseFloat(raw) ==
    IF raw[1] = "num" THEN Fin(raw[2])
    ELSE IF raw = InfinityText THEN Infinity
    ELSE NaN

\* x || d for a number x: NaN and 0 are falsy
OrDefault(x, d) == IF isNaN(x) \/ x = Fin(0) THEN d ELSE x.v

\* s || '' for a string parameter: undefined and '' are falsy
OrEmpty(s) == IF s = Absent THEN Empty ELSE s

DefaultPage == 1
DefaultLimit == 200
TTL == 5            \* 5 * 60 * 1000 ms, in minutes

\* Math.ceil(a / b) for a >= 0, b > 0
Ceil(a, b) == (a + b - 1) \div b

(***************************************************************************)
(* The filter of getRecords.                                               *)
(***************************************************************************)
Lower(c) ==
    CASE c = "A" -> "a" [] c = "B" -> "b" [] c = "E" -> "e" [] c = "G" -> "g"
      [] c = "L" -> "l" [] c = "N" -> "n" [] c = "O" -> "o" [] c = "V" -> "v"
      [] c = "X" -> "x" [] OTHER -> c

\* { $regex: pattern, $options: 'i' } on a string value: the pattern occurs
\* somewhere in the value, letters compared without case, "." matching any
\* character
RegexI(pattern, value) ==
    \E i \in 1..(Len(value) - Len(pattern) + 1) :
        \A j \in 1..Len(pattern) :
            \/ pattern[j] = "."
            \/ Lower(pattern[j]) = Lower(value[i + j - 1])

StringFields == {"Email", "Magazine", "Full_Name"}

page(query) == OrDefault(parseInt(query.page), DefaultPage)
limit(query) == OrDefault(parseInt(query.limit), DefaultLimit)
search(query) == OrEmpty(query.search)
minPrice(query) == parseFloat(query.minPrice)
maxPrice(query) == parseFloat(query.maxPrice)
magazineName(query) == OrEmpty(query.magazine)

isAmountFilterOnly(query) ==
    LET s == search(query) = Empty
        m == magazineName(query) = Empty
        lo == minPrice(query)
        hi == maxPrice(query)
    IN  \/ (s /\ m /\ isFinite(lo) /\ isFinite(hi))
        \/ (s /\ m /\ isFinite(lo) /\ ~isNaN(hi))
        \/ (s /\ m /\ ~isNaN(lo) /\ isNaN(hi))

\* the filter object: $or over the string fields, Full_Name $ne, Magazine
\* when given, Amount $gte / $lte for the bounds that are numbers
filter(query) ==
    [ or |-> search(query),
      Magazine |-> IF magazineName(query) # Empty THEN magazineName(query) ELSE Absent,
      gte |-> IF ~isNaN(minPrice(query)) THEN minPrice(query) ELSE NaN,
      lte |-> IF ~isNaN(maxPrice(query)) THEN maxPrice(query) ELSE NaN ]

Gte(amount, bound) == bound.k = "fin" /\ amount >= bound.v
Lte(amount, bound) == bound.k = "inf" \/ (bound.k = "fin" /\ amount <= bound.v)

\* the store's evaluation of the filter on one document
Matches(f, doc) ==
    /\ \E key \in StringFields : RegexI(f.or, doc[key])
    /\ doc.Full_Name # UndefinedUndefined
    /\ f.Magazine # Absent => RegexI(f.Magazine, doc.Magazine)
    /\ ~isNaN(f.gte) => Gte(doc.Amount, f.gte)
    /\ ~isNaN(f.lte) => Lte(doc.Amount, f.lte)

cacheKey(query) == <<query, filter(query)>>

(***************************************************************************)
(* State.                                                                  *)
(***************************************************************************)
VARIABLES
    Record,     \* the Record collection: identifier -> document or NoRecord
    User,       \* the User collection: identifier -> document or NoUser
    nextId,     \* the next identifier the store assigns
    cache,      \* memory-cache: key -> [value, expire]
    now,        \* Date.now(), in minutes
    list,       \* the getRecords requests: request -> its locals and position
    upd,        \* the cascade updateRecord requests (part_000)
    byId,       \* the getRecordById request
    res         \* the response of the last createRecord / deleteRecord /
                \* partial updateRecord request

vars == <<Record, User, nextId, cache, now, list, upd, byId, res>>

ListReqs == 1..MaxListReqs
NoQuery == [page |-> Absent]
NoRes == [status |-> 0]

IdleList ==
    [ pc |-> "idle", query |-> NoQuery, records |-> << >>, totalRecords |-> 0,
      sumOfAmount |-> 0, res |-> NoRes,
      \* history of the request, read by the properties only
      hit |-> FALSE, at |-> 0, raced |-> FALSE, racedWith |-> {}, dirty |-> FALSE ]

\* the handler returns: its locals are gone, the response stays on record
Returned(req, response) ==
    [req EXCEPT !.pc = "done", !.res = response, !.records = << >>,
                !.totalRecords = 0, !.sumOfAmount = 0]

Computing(r) == list[r].pc \in {"find", "count", "aggregate", "put"}

\* the documents of the collection in natural (insertion) order
AllDocs == [i \in Ids |-> Record[i]]

\* Record.find(f).lean(): the matching documents
Find(f) == SelectSeq(AllDocs, LAMBDA doc : doc # NoRecord /\ Matches(f, doc))

Min(a, b) == IF a <= b THEN a ELSE b

\* cursor.skip(s).limit(l) on a result sequence, s >= 0 and l > 0
SkipLimit(docs, s, l) == SubSeq(docs, s + 1, Min(s + l, Len(docs)))

RECURSIVE SumAmount(_)
\* $group: { totalAmount: { $sum: '$Amount' } } and records.reduce(acc + Amount, 0)
SumAmount(docs) ==
    IF docs = << >> THEN 0 ELSE Head(docs).Amount + SumAmount(Tail(docs))

\* the offset of the page after the one asked for
skip_PageTimesLimit(query) == page(query) * limit(query)

skip(query) == (page(query) - 1) * limit(query)

(***************************************************************************)
(* memory-cache as the handler uses it.                                    *)
(***************************************************************************)
\* a cache that never lets an entry expire
CacheLive_NoExpiry(key) == key \in DOMAIN cache

\* cache.get(key): the value while the entry has not expired, else null
CacheLive(key) == key \in DOMAIN cache /\ cache[key].expire >= now

\* cache.get deletes an entry it finds expired
CacheAfterGet(key) ==
    IF key \in DOMAIN cache /\ ~CacheLive(key)
    THEN [k \in DOMAIN cache \ {key} |-> cache[k]]
    ELSE cache

\* cache.put(key, value, 5 * 60 * 1000)
\* (storedAt and raced are history, read by the properties only)
CachePut(key, value, raced) ==
    [k \in DOMAIN cache \cup {key} |->
        IF k = key
        THEN [value |-> value, expire |-> now + TTL, storedAt |-> now, raced |-> raced]
        ELSE cache[k]]

\* a write to the Record collection lands: the requests that have looked up
\* the cache by now are marked (history only)
Dirtied == [r \in ListReqs |->
              IF list[r].pc # "idle" THEN [list[r] EXCEPT !.dirty = TRUE]
              ELSE list[r]]

UpdReqs == 1..MaxUpdates

\* a write of another request lands while cascade request c is under way
\* (history only; c = 0 for a write of a request that is no cascade)
Disturbed(c) ==
    [u \in UpdReqs |->
        IF u # c /\ upd[u].pc # "idle" THEN [upd[u] EXCEPT !.disturbed = TRUE]
        ELSE upd[u]]

(***************************************************************************)
(* getRecords (recordController.js).                                       *)
(***************************************************************************)
\* lines 229-276: parse the parameters, build filter and key, cache.get
GetRecords(r, query) ==
    /\ list[r].pc \in {"idle", "done"}
    /\ LET key == cacheKey(query)
           racing == {p \in ListReqs \ {r} : Computing(p) /\ list[p].query = query}
           fresh == [IdleList EXCEPT !.query = query, !.at = now]
       IN IF CacheLive(key)
          THEN /\ list' = [p \in ListReqs |->
                     IF p = r
                     THEN [fresh EXCEPT !.pc = "done", !.hit = TRUE,
                                        !.res = cache[key].value,
                                        !.raced = cache[key].raced]
                     ELSE [list[p] EXCEPT !.racedWith = @ \ {r}]]
               /\ cache' = cache
          ELSE /\ list' = [p \in ListReqs |->
                     IF p = r
                     THEN [fresh EXCEPT !.pc = "find", !.racedWith = racing,
                                        !.raced = racing # {}]
                     ELSE IF p \in racing
                     THEN [list[p] EXCEPT !.racedWith = @ \cup {r}, !.raced = TRUE]
                     ELSE [list[p] EXCEPT !.racedWith = @ \ {r}]]
               /\ cache' = CacheAfterGet(key)
    /\ UNCHANGED <<Record, User, nextId, now, upd, byId, res>>

\* lines 281-297: Record.find(filter).lean() of the amount-only branch
FindAll(r) ==
    /\ list[r].pc = "find"
    /\ isAmountFilterOnly(list[r].query)
    /\ LET records == Find(filter(list[r].query))
       IN list' = [list EXCEPT ![r] =
              [@ EXCEPT !.pc = "put", !.records = records,
                        !.totalRecords = Len(records),
                        !.sumOfAmount = SumAmount(records)]]
    /\ UNCHANGED <<Record, User, nextId, cache, now, upd, byId, res>>

\* lines 305-306: Record.find(filter).skip(skip).limit(limit).lean()
FindPage(r) ==
    /\ list[r].pc = "find"
    /\ ~isAmountFilterOnly(list[r].query)
    /\ LET q == list[r].query
       IN list' = [list EXCEPT ![r] =
              [@ EXCEPT !.pc = "count",
                        !.records = SkipLimit(Find(filter(q)), skip(q), limit(q))]]
    /\ UNCHANGED <<Record, User, nextId, cache, now, upd, byId, res>>

\* a count taken from the page that was read
CountDocuments_OfPage(r) ==
    /\ list[r].pc = "count"
    /\ list' = [list EXCEPT ![r] =
           [@ EXCEPT !.pc = "aggregate", !.totalRecords = Len(list[r].records)]]
    /\ UNCHANGED <<Record, User, nextId, cache, now, upd, byId, res>>

\* line 308: Record.countDocuments(filter)
CountDocuments(r) ==
    /\ list[r].pc = "count"
    /\ list' = [list EXCEPT ![r] =
           [@ EXCEPT !.pc = "aggregate",
                     !.totalRecords = Len(Find(filter(list[r].query)))]]
    /\ UNCHANGED <<Record, User, nextId, cache, now, upd, byId, res>>

\* lines 312-319: Record.aggregate([$match, $group $sum]), 0 when none match
Aggregate(r) ==
    /\ list[r].pc = "aggregate"
    /\ list' = [list EXCEPT ![r] =
           [@ EXCEPT !.pc = "put",
                     !.sumOfAmount = SumAmount(Find(filter(list[r].query)))]]
    /\ UNCHANGED <<Record, User, nextId, cache, now, upd, byId, res>>

\* lines 291-297 and 321-327: the response object of either branch
responseData(r) ==
    LET q == list[r].query
        only == isAmountFilterOnly(q)
    IN [ status |-> 200,
         totalRecords |-> list[r].totalRecords,
         page |-> IF only THEN 1 ELSE page(q),
         totalPages |-> IF only THEN 1 ELSE Ceil(list[r].totalRecords, limit(q)),
         totalAmount |-> list[r].sumOfAmount,
         records |-> list[r].records ]

\* a put that keeps the entry another request has stored in the meantime
PutAndRespond_KeepFirst(r) ==
    /\ list[r].pc = "put"
    /\ cache' = IF cacheKey(list[r].query) \in DOMAIN cache THEN cache
                ELSE CachePut(cacheKey(list[r].query), responseData(r), list[r].raced)
    /\ list' = [list EXCEPT ![r] = Returned(list[r], responseData(r))]
    /\ UNCHANGED <<Record, User, nextId, now, upd, byId, res>>

\* lines 300-302 and 330-332: cache.put(cacheKey, responseData, TTL); res.json
PutAndRespond(r) ==
    /\ list[r].pc = "put"
    /\ cache' = CachePut(cacheKey(list[r].query), responseData(r), list[r].raced)
    /\ list' = [list EXCEPT ![r] = Returned(list[r], responseData(r))]
    /\ UNCHANGED <<Record, User, nextId, now, upd, byId, res>>

\* a handler that stores what it answers, the error too
GetRecordsFails_CachesError(r) ==
    /\ list[r].pc \in {"find", "count", "aggregate"}
    /\ cache' = CachePut(cacheKey(list[r].query), [status |-> 500], list[r].raced)
    /\ list' = [list EXCEPT ![r] = Returned(list[r], [status |-> 500])]
    /\ UNCHANGED <<Record, User, nextId, now, upd, byId, res>>

\* lines 334-336: a store query throws; the handler answers 500
GetRecordsFails(r) ==
    /\ list[r].pc \in {"find", "count", "aggregate"}
    /\ list' = [list EXCEPT ![r] = Returned(list[r], [status |-> 500])]
    /\ UNCHANGED <<Record, User, nextId, cache, now, upd, byId, res>>

\* the timer memory-cache sets in put: it deletes the entry once the TTL passed
CacheTimeout(key) ==
    /\ key \in DOMAIN cache
    /\ now >= cache[key].expire
    /\ cache' = [k \in DOMAIN cache \ {key} |-> cache[k]]
    /\ UNCHANGED <<Record, User, nextId, now, list, upd, byId, res>>

\* time passes, by some minutes at a time
Tick(minutes) ==
    /\ now + minutes <= MaxNow
    /\ now' = now + minutes
    /\ UNCHANGED <<Record, User, nextId, cache, list, upd, byId, res>>

(***************************************************************************)
(* createRecord, deleteRecord and the partial updateRecord                 *)
(* (recordController.js).  A request body is a function from the keys it   *)
(* holds to their values.                                                  *)
(***************************************************************************)
\* recordSchema: the required keys, in the order Joi checks them
SchemaKeys ==
    <<"First Name", "Last Name", "Magazine", "Amount", "Email", "Model Insta Link 1">>
OptionalKeys == {"LeadSource", "Notes"}

\* the fields of a stored document the handlers read
DocFields == {"Email", "Magazine", "Amount", "Full_Name"}

\* Joi.string().email(): text, "@", text
IsEmail(s) == \E i \in 2..(Len(s) - 1) : s[i] = "@"
\* Joi.string().uri(): a scheme, ":", the rest
IsUri(s) == \E i \in 2..(Len(s) - 1) : s[i] = ":"

\* the constraint of recordSchema the body violates at `key`, or "" if none
Violation(body, key) ==
    IF key \notin DOMAIN body THEN "required"
    ELSE IF key = "Amount" THEN ""
    ELSE IF body[key] = Empty THEN "empty"
    ELSE IF key = "Email" /\ ~IsEmail(body[key]) THEN "email"
    ELSE IF key = "Model Insta Link 1" /\ ~IsUri(body[key]) THEN "uri"
    ELSE ""

Range(seq) == {seq[i] : i \in DOMAIN seq}

\* a validation that reports the last violated constraint
validate_LastViolation(body) ==
    LET bad == {i \in DOMAIN SchemaKeys : Violation(body, SchemaKeys[i]) # ""}
        unknown == DOMAIN body \ (Range(SchemaKeys) \cup OptionalKeys)
    IN  IF bad # {}
        THEN LET i == CHOOSE i \in bad : \A j \in bad : i >= j
             IN <<SchemaKeys[i], Violation(body, SchemaKeys[i])>>
        ELSE IF unknown # {} THEN <<"unknown key", "not allowed">>
        ELSE <<"", "">>

\* recordSchema.validate(body).error.details[0]: the first violated
\* constraint in schema order, then keys the schema does not allow
validate(body) ==
    LET bad == {i \in DOMAIN SchemaKeys : Violation(body, SchemaKeys[i]) # ""}
        unknown == DOMAIN body \ (Range(SchemaKeys) \cup OptionalKeys)
    IN  IF bad # {}
        THEN LET i == CHOOSE i \in bad : \A j \in bad : i <= j
             IN <<SchemaKeys[i], Violation(body, SchemaKeys[i])>>
        ELSE IF unknown # {} THEN <<"unknown key", "not allowed">>
        ELSE <<"", "">>

\* new Record(body): the document the model keeps for a body
NewRecord(id, body) ==
    [ _id |-> id, Email |-> body["Email"], Magazine |-> body["Magazine"],
      Amount |-> body["Amount"],
      Full_Name |-> body["First Name"] \o <<" ">> \o body["Last Name"] ]

\* lines 339-346
createRecord(body) ==
    /\ IF validate(body) # <<"", "">>
       THEN /\ res' = [op |-> "create", status |-> 400, error |-> validate(body)]
            /\ UNCHANGED <<Record, nextId, list, upd>>
       ELSE /\ nextId <= MaxId
            /\ Record' = [Record EXCEPT ![nextId] = NewRecord(nextId, body)]
            /\ nextId' = nextId + 1
            /\ res' = [op |-> "create", status |-> 201,
                       savedRecord |-> NewRecord(nextId, body)]
            /\ list' = Dirtied
            /\ upd' = Disturbed(0)
    /\ UNCHANGED <<User, cache, now, byId>>

\* lines 347-349: record.save() throws
createRecordFails(body) ==
    /\ validate(body) = <<"", "">>
    /\ res' = [op |-> "create", status |-> 500]
    /\ UNCHANGED <<Record, User, nextId, cache, now, list, upd, byId>>

\* a delete that answers without removing the record
deleteRecord_KeepsRecord(id) ==
    /\ res' = [op |-> "delete", status |-> IF Record[id] = NoRecord THEN 404 ELSE 200]
    /\ UNCHANGED <<Record, User, nextId, cache, now, list, upd, byId>>

\* lines 428-437: findByIdAndDelete(req.params.id)
deleteRecord(id) ==
    /\ IF Record[id] = NoRecord
       THEN /\ res' = [op |-> "delete", status |-> 404]
            /\ UNCHANGED <<Record, list, upd>>
       ELSE /\ Record' = [Record EXCEPT ![id] = NoRecord]
            /\ res' = [op |-> "delete", status |-> 200]
            /\ list' = Dirtied
            /\ upd' = Disturbed(0)
    /\ UNCHANGED <<User, nextId, cache, now, byId>>

\* lines 433-435: findByIdAndDelete throws
deleteRecordFails(id) ==
    /\ res' = [op |-> "delete", status |-> 500]
    /\ UNCHANGED <<Record, User, nextId, cache, now, list, upd, byId>>

\* { $set: fields } on a document: the schema's fields among them are set
SetFields(doc, fields) ==
    [k \in DOMAIN doc |->
        IF k \in DOMAIN fields /\ k \in DocFields THEN fields[k] ELSE doc[k]]

\* body[key] === '' (an Amount is a number in every body of the model)
IsEmptyString(body, key) == key # "Amount" /\ body[key] = Empty

\* lines 383-391: drop the keys whose value is ''
filteredUpdateFields(updateFields) ==
    [k \in {k \in DOMAIN updateFields : ~IsEmptyString(updateFields, k)} |->
        updateFields[k]]

\* lines 377-403: the partial updateRecord, identifier in req.query.id
updateRecordPartial(id, updateFields) ==
    /\ IF DOMAIN filteredUpdateFields(updateFields) = {}
       THEN /\ res' = [op |-> "update", status |-> 400]
            /\ UNCHANGED <<Record, list, upd>>
       ELSE IF Record[id] = NoRecord
       THEN /\ res' = [op |-> "update", status |-> 200,
                       updatedRecord |-> NoRecord]
            /\ UNCHANGED <<Record, list, upd>>
       ELSE /\ Record' = [Record EXCEPT ![id] =
                   SetFields(@, filteredUpdateFields(updateFields))]
            /\ res' = [op |-> "update", status |-> 200,
                       updatedRecord |->
                           SetFields(Record[id], filteredUpdateFields(updateFields))]
            /\ list' = Dirtied
            /\ upd' = Disturbed(0)
    /\ UNCHANGED <<User, nextId, cache, now, byId>>

\* lines 404-407: findByIdAndUpdate throws
updateRecordPartialFails(id, updateFields) ==
    /\ DOMAIN filteredUpdateFields(updateFields) # {}
    /\ res' = [op |-> "update", status |-> 500]
    /\ UNCHANGED <<Record, User, nextId, cache, now, list, upd, byId>>

(***************************************************************************)
(* The cascade updateRecord (part_000), identifier in req.params.id.       *)
(***************************************************************************)
IdleUpd ==
    [ pc |-> "idle", id |-> 0, data |-> << >>, updatedRecord |-> NoRecord,
      pending |-> {}, userDetails |-> NoUser, res |-> NoRes,
      \* history of the request, read by the properties only
      disturbed |-> FALSE, written |-> {} ]

\* the handler answers; writes it has in flight stay in flight
Answer(req, status) == [req EXCEPT !.pc = "done", !.res = [status |-> status]]

\* lines 166-171: findByIdAndUpdate(req.params.id, data, { new: true })
updateRecord(c, id, data) ==
    /\ upd[c].pc \in {"idle", "done"}
    /\ upd[c].pending = {}
    /\ LET fresh == [IdleUpd EXCEPT !.id = id, !.data = data]
       IN IF Record[id] = NoRecord
          THEN /\ upd' = [upd EXCEPT ![c] = Answer(fresh, 404)]
               /\ UNCHANGED <<Record, list>>
          ELSE /\ Record' = [Record EXCEPT ![id] = SetFields(@, data)]
               /\ upd' = [Disturbed(c) EXCEPT ![c] =
                      [fresh EXCEPT !.pc = "findSiblings", !.written = {id},
                                    !.updatedRecord = SetFields(Record[id], data)]]
               /\ list' = Dirtied
    /\ UNCHANGED <<User, nextId, cache, now, byId, res>>

\* a cascade that goes no further than the primary record
FindSameEmail_PrimaryOnly(c) ==
    /\ upd[c].pc = "findSiblings"
    /\ upd' = [upd EXCEPT ![c] =
           [@ EXCEPT !.pc = "updateSiblings", !.pending = {upd[c].id}]]
    /\ UNCHANGED <<Record, User, nextId, cache, now, list, byId, res>>

\* lines 176-186: Record.find({ Email: updatedRecord.Email }), then one
\* findByIdAndUpdate per record found, all issued at once
FindSameEmail(c) ==
    /\ upd[c].pc = "findSiblings"
    /\ LET sameEmailRecords ==
               {i \in Ids : /\ Record[i] # NoRecord
                            /\ Record[i].Email = upd[c].updatedRecord.Email}
       IN upd' = [upd EXCEPT ![c] =
              [@ EXCEPT !.pc = "updateSiblings", !.pending = sameEmailRecords]]
    /\ UNCHANGED <<Record, User, nextId, cache, now, list, byId, res>>

\* a cascade that writes all the records it found in one step
SiblingUpdate_AllAtOnce(c, i) ==
    /\ i \in upd[c].pending
    /\ Record' = [j \in Ids |->
           IF j \in upd[c].pending /\ Record[j] # NoRecord
           THEN SetFields(Record[j], upd[c].data) ELSE Record[j]]
    /\ upd' = [Disturbed(c) EXCEPT ![c] =
           [upd[c] EXCEPT !.pending = {},
                          !.written = @ \cup {j \in upd[c].pending :
                                                 Record[j] # NoRecord}]]
    /\ list' = Dirtied
    /\ UNCHANGED <<User, nextId, cache, now, byId, res>>

\* line 184: one of the sibling updates lands
SiblingUpdate(c, i) ==
    /\ i \in upd[c].pending
    /\ Record' = [Record EXCEPT ![i] =
           IF @ = NoRecord THEN @ ELSE SetFields(@, upd[c].data)]
    /\ upd' = [Disturbed(c) EXCEPT ![c] =
           [upd[c] EXCEPT !.pending = @ \ {i},
                          !.written = IF Record[i] = NoRecord THEN @ ELSE @ \cup {i}]]
    /\ list' = Dirtied
    /\ UNCHANGED <<User, nextId, cache, now, byId, res>>

\* line 184 and 212-214: one of the sibling updates throws; Promise.all
\* rejects at the first rejection, the other updates stay in flight
SiblingUpdateFails(c, i) ==
    /\ i \in upd[c].pending
    /\ upd' = [upd EXCEPT ![c] =
           IF @.pc = "updateSiblings"
           THEN [Answer(@, 500) EXCEPT !.pending = @ \ {i}]
           ELSE [@ EXCEPT !.pending = @ \ {i}]]
    /\ UNCHANGED <<Record, User, nextId, cache, now, list, byId, res>>

\* a fallback that takes every supplied value, the empty string too
OrExisting_AnySupplied(data, key, existing) ==
    IF key \in DOMAIN data THEN data[key] ELSE existing

\* data.X || userDetails.X
OrExisting(data, key, existing) ==
    IF key \in DOMAIN data /\ data[key] # Empty THEN data[key] ELSE existing

\* lines 196-201
updatedUserDetails(data, userDetails) ==
    [ Model_Type |-> OrExisting(data, "Model_Type", userDetails.Model_Type),
      Stage_Name |-> OrExisting(data, "Stage_Name", userDetails.Stage_Name),
      Model_Insta_Link |->
          OrExisting(data, "Model_Insta_Link", userDetails.Model_Insta_Link),
      Email_Address |-> OrExisting(data, "Email", userDetails.Email_Address) ]

\* User.findOne({ Email_Address: email }): the first match, or NoUser
FindOneUser(email) ==
    LET found == {u \in Uids : User[u] # NoUser /\ User[u].Email_Address = email}
    IN  IF found = {} THEN NoUser
        ELSE User[CHOOSE u \in found : \A v \in found : u <= v]

\* lines 182-195 and 209-211: every sibling update has resolved;
\* User.findOne; with no such user the handler answers 200
FindUser(c) ==
    /\ upd[c].pc = "updateSiblings"
    /\ upd[c].pending = {}
    /\ LET userDetails == FindOneUser(upd[c].updatedRecord.Email)
       IN upd' = [upd EXCEPT ![c] =
              IF userDetails = NoUser THEN Answer(@, 200)
              ELSE [@ EXCEPT !.pc = "updateUser", !.userDetails = userDetails]]
    /\ UNCHANGED <<Record, User, nextId, cache, now, list, byId, res>>

\* lines 203-211: User.findByIdAndUpdate(userDetails._id, updatedUserDetails)
UpdateUser(c) ==
    /\ upd[c].pc = "updateUser"
    /\ LET uid == upd[c].userDetails._id
           new == updatedUserDetails(upd[c].data, upd[c].userDetails)
       IN User' = [User EXCEPT ![uid] =
              IF @ = NoUser THEN @
              ELSE [k \in DOMAIN @ |-> IF k \in DOMAIN new THEN new[k] ELSE @[k]]]
    /\ upd' = [Disturbed(c) EXCEPT ![c] = Answer(upd[c], 200)]
    /\ UNCHANGED <<Record, nextId, cache, now, list, byId, res>>

\* lines 212-215: the primary update, the find of the siblings, the find or
\* the update of the user throws
updateRecordFails(c, id, data) ==
    /\ upd[c].pc \in {"idle", "done"}
    /\ upd[c].pending = {}
    /\ upd' = [upd EXCEPT ![c] =
           Answer([IdleUpd EXCEPT !.id = id, !.data = data], 500)]
    /\ UNCHANGED <<Record, User, nextId, cache, now, list, byId, res>>

\* a failure of the user update that comes after its write has landed
CascadeFails_AfterUserWrite(c) ==
    /\ upd[c].pc = "updateUser"
    /\ User' = [User EXCEPT ![upd[c].userDetails._id] =
           [k \in DOMAIN @ |->
               IF k \in DOMAIN updatedUserDetails(upd[c].data, upd[c].userDetails)
               THEN updatedUserDetails(upd[c].data, upd[c].userDetails)[k]
               ELSE @[k]]]
    /\ upd' = [upd EXCEPT ![c] = Answer(@, 500)]
    /\ UNCHANGED <<Record, nextId, cache, now, list, byId, res>>

\* lines 176-178, 189-191, 203-205 and 212-215: the find of the siblings,
\* the find of the user or the update of the user throws
CascadeFails(c) ==
    /\ \/ upd[c].pc = "findSiblings"
       \/ upd[c].pc = "updateSiblings" /\ upd[c].pending = {}
       \/ upd[c].pc = "updateUser"
    /\ upd' = [upd EXCEPT ![c] = Answer(@, 500)]
    /\ UNCHANGED <<Record, User, nextId, cache, now, list, byId, res>>

\* lines 158-161: the body is no object
updateRecordInvalid(c) ==
    /\ upd[c].pc \in {"idle", "done"}
    /\ upd[c].pending = {}
    /\ upd' = [upd EXCEPT ![c] = Answer(IdleUpd, 400)]
    /\ UNCHANGED <<Record, User, nextId, cache, now, list, byId, res>>

(***************************************************************************)
(* getRecordById (part_000 lines 112-135, the same in recordController.js).*)
(***************************************************************************)
\* lines 115-120: Record.findById(req.params.id)
getRecordById(id) ==
    /\ byId.pc \in {"idle", "done"}
    /\ byId' = IF Record[id] = NoRecord
               THEN [pc |-> "done", id |-> id, res |-> [status |-> 404]]
               ELSE [pc |-> "findSame", id |-> id, record |-> Record[id]]
    /\ UNCHANGED <<Record, User, nextId, cache, now, list, upd, res>>

\* line 123: Record.find({ Email: record.Email })
FindSameEmailRecords ==
    /\ byId.pc = "findSame"
    /\ byId' = [ pc |-> "findUser", id |-> byId.id, record |-> byId.record,
                 sameEmailRecords |->
                     SelectSeq(AllDocs, LAMBDA doc :
                         doc # NoRecord /\ doc.Email = byId.record.Email) ]
    /\ UNCHANGED <<Record, User, nextId, cache, now, list, upd, res>>

\* lines 126-131: User.findOne({ Email_Address: record.Email }); res.json
FindUserDetails ==
    /\ byId.pc = "findUser"
    /\ byId' = [ pc |-> "done", id |-> byId.id,
                 res |-> [ status |-> 200, record |-> byId.record,
                           sameEmailRecords |-> byId.sameEmailRecords,
                           userDetails |-> FindOneUser(byId.record.Email) ] ]
    /\ UNCHANGED <<Record, User, nextId, cache, now, list, upd, res>>

\* lines 132-134: a store query throws
getRecordByIdFails ==
    /\ byId.pc \in {"findSame", "findUser"}
    /\ byId' = [pc |-> "done", id |-> byId.id, res |-> [status |-> 500]]
    /\ UNCHANGED <<Record, User, nextId, cache, now, list, upd, res>>

(***************************************************************************)
(* Initial states and the inputs of the requests.                          *)
(***************************************************************************)
Doc(id, email, magazine, amount, fullName) ==
    [ _id |-> id, Email |-> email, Magazine |-> magazine, Amount |-> amount,
      Full_Name |-> fullName ]

\* a body createRecord accepts
Body(email, magazine, amount) ==
    [k \in Range(SchemaKeys) |->
        CASE k = "Email" -> email
          [] k = "Magazine" -> magazine
          [] k = "Amount" -> amount
          [] k = "Model Insta Link 1" -> <<"h", ":", "i">>
          [] OTHER -> <<"N">>]

Without(body, key) == [k \in DOMAIN body \ {key} |-> body[k]]
With(body, key, value) ==
    [k \in DOMAIN body \cup {key} |-> IF k = key THEN value ELSE body[k]]

\* the store is empty and no request has arrived
Init ==
    /\ Record = [i \in Ids |-> NoRecord]
    /\ User = [u \in Uids |-> NoUser]
    /\ nextId = 1
    /\ cache = << >>
    /\ now = 0
    /\ list = [r \in ListReqs |-> IdleList]
    /\ upd = [u \in UpdReqs |-> IdleUpd]
    /\ byId = [pc |-> "idle"]
    /\ res = NoRes

(***************************************************************************)
(* SpecPage: a single getRecords request over the whole range of its       *)
(* parameters, with records created and deleted around it.                 *)
(***************************************************************************)
PageParams == {Absent, NonNumeric, Num(0), Num(1), Num(2)}
PriceParams == {Absent, NonNumeric, Num(2), InfinityText}
\* every page and limit against a few filters, and every filter against a
\* few pages
PageQueries ==
    [ page : PageParams, limit : PageParams, search : {Absent},
      minPrice : {Absent}, maxPrice : {Absent, Num(2)},
      magazine : {Absent} ]
    \cup
    [ page : PageParams, limit : PageParams, search : {<<"o">>},
      minPrice : {Num(2)}, maxPrice : {Absent}, magazine : {Absent} ]
    \cup
    [ page : {Num(2)}, limit : {Num(1)}, search : {Absent, <<"o">>},
      minPrice : PriceParams, maxPrice : PriceParams,
      magazine : {Absent, <<"e", "l">>} ]
    \cup
    [ page : {Absent}, limit : {Absent},
      search : {<<"a", ".", "x">>, <<"V", "O">>, <<"o", "x">>},
      minPrice : {Absent, Num(2)}, maxPrice : {Absent}, magazine : {Absent} ]
PageBodies ==
    { Body(EmailA, Vogue, 2), Body(EmailB, Elle, 1) }

NextPage ==
    \/ \E q \in PageQueries : list[1].pc = "idle" /\ GetRecords(1, q)
    \/ FindAll(1)
    \/ FindPage(1)
    \/ CountDocuments(1)
    \/ Aggregate(1)
    \/ PutAndRespond(1)
    \/ GetRecordsFails(1)
    \/ \E body \in PageBodies : createRecord(body)
    \/ \E id \in Ids : deleteRecord(id)

SpecPage == Init /\ [][NextPage]_vars

(***************************************************************************)
(* SpecList: getRecords requests racing each other and the writers, while  *)
(* the clock runs past the TTL of the entries they cache.                  *)
(***************************************************************************)
Query(pg, lim, srch, lo, hi, mag) ==
    [ page |-> pg, limit |-> lim, search |-> srch, minPrice |-> lo,
      maxPrice |-> hi, magazine |-> mag ]

ListQueries ==
    { Query(Absent, Absent, Absent, Num(2), Absent, Absent) }
TickMinutes == {3}
ListBodies == { Body(EmailA, Vogue, 2) }

NextList ==
    \/ \E r \in ListReqs, q \in ListQueries : GetRecords(r, q)
    \/ \E r \in ListReqs : FindAll(r)
    \/ \E r \in ListReqs : PutAndRespond(r)
    \/ \E r \in ListReqs : GetRecordsFails(r)
    \/ \E q \in ListQueries : CacheTimeout(cacheKey(q))
    \/ \E minutes \in TickMinutes : Tick(minutes)
    \/ \E body \in ListBodies : createRecord(body)
    \/ \E id \in Ids : deleteRecord(id)

SpecList == Init /\ [][NextList]_vars

(***************************************************************************)
(* SpecCrud: records are created, looked up and deleted.                   *)
(***************************************************************************)
CrudBodies ==
    LET ok == Body(EmailA, Vogue, 2)
    IN  { ok,
          Body(EmailB, Elle, 1),
          With(ok, "Notes", <<"n">>),
          Without(ok, "Email"),
          Without(Without(ok, "Email"), "Last Name"),
          With(ok, "Email", <<"a", "x">>),
          With(ok, "Magazine", Empty),
          With(ok, "Model Insta Link 1", <<"i">>),
          Without(ok, "Amount"),
          With(ok, "Stage_Name", <<"s">>) }

CrudUpdates == { [Magazine |-> Elle], [Magazine |-> Empty] }

NextCrud ==
    \/ \E body \in CrudBodies : createRecord(body)
    \/ \E body \in CrudBodies : createRecordFails(body)
    \/ \E id \in Ids : deleteRecord(id)
    \/ \E id \in Ids : getRecordById(id)
    \/ FindSameEmailRecords
    \/ FindUserDetails
    \/ getRecordByIdFails
    \/ \E id \in Ids, fields \in CrudUpdates : updateRecordPartial(id, fields)
    \/ \E id \in Ids : deleteRecordFails(id)
    \/ \E id \in Ids, fields \in CrudUpdates : updateRecordPartialFails(id, fields)

SpecCrud == Init /\ [][NextCrud]_vars

(***************************************************************************)
(* SpecUpdate: cascade updates on a store that holds records sharing an    *)
(* Email and their users, with deletes around them.                        *)
(***************************************************************************)
UserDoc(id, email) ==
    [ _id |-> id, Email_Address |-> email, Model_Type |-> <<"t">>,
      Stage_Name |-> <<"s">>, Model_Insta_Link |-> <<"h", ":", "l">> ]

InitUpdate ==
    /\ Record \in
         { rec \in [Ids -> { NoRecord } \cup
                            { Doc(i, e, m, 1, Name) :
                                i \in Ids, e \in {EmailA, EmailB}, m \in {Vogue} }] :
             /\ \A i \in Ids : rec[i] # NoRecord => rec[i]._id = i
             /\ rec[1] = Doc(1, EmailA, Vogue, 1, Name)
             /\ rec[2] = Doc(2, EmailA, Vogue, 1, Name) }
    /\ User \in
         { usr \in [Uids -> { NoUser } \cup
                            { UserDoc(u, e) : u \in Uids, e \in {EmailA, EmailB} }] :
             /\ usr[1] = UserDoc(1, EmailA)
             /\ \A u \in Uids \ {1} : usr[u] \in {NoUser, UserDoc(u, EmailB)} }
    /\ nextId = MaxId + 1
    /\ cache = << >>
    /\ now = 0
    /\ list = [r \in ListReqs |-> IdleList]
    /\ upd = [u \in UpdReqs |-> IdleUpd]
    /\ byId = [pc |-> "idle"]
    /\ res = NoRes

UpdateBodies ==
    { [Magazine |-> Elle, Stage_Name |-> <<"S", "2">>],
      [Email |-> EmailB, Magazine |-> Elle],
      [Stage_Name |-> Empty, Model_Type |-> <<"T", "2">>] }

NextUpdate ==
    \/ \E c \in UpdReqs, id \in Ids, data \in UpdateBodies : updateRecord(c, id, data)
    \/ \E c \in UpdReqs, id \in Ids, data \in UpdateBodies :
           updateRecordFails(c, id, data)
    \/ \E c \in UpdReqs : updateRecordInvalid(c)
    \/ \E c \in UpdReqs : FindSameEmail(c)
    \/ \E c \in UpdReqs, i \in Ids : SiblingUpdate(c, i)
    \/ \E c \in UpdReqs, i \in Ids : SiblingUpdateFails(c, i)
    \/ \E c \in UpdReqs : FindUser(c)
    \/ \E c \in UpdReqs : UpdateUser(c)
    \/ \E c \in UpdReqs : CascadeFails(c)
    \/ \E id \in Ids : deleteRecord(id)

SpecUpdate == InitUpdate /\ [][NextUpdate]_vars

(***************************************************************************)
(* SpecRead: getRecordById requests running beside a cascade updateRecord. *)
(***************************************************************************)
ReadBodies == { [Magazine |-> Elle, Stage_Name |-> <<"S", "2">>] }

NextRead ==
    \/ \E c \in UpdReqs, id \in Ids, data \in ReadBodies : updateRecord(c, id, data)
    \/ \E c \in UpdReqs : FindSameEmail(c)
    \/ \E c \in UpdReqs, i \in Ids : SiblingUpdate(c, i)
    \/ \E c \in UpdReqs, i \in Ids : SiblingUpdateFails(c, i)
    \/ \E c \in UpdReqs : FindUser(c)
    \/ \E c \in UpdReqs : UpdateUser(c)
    \/ \E c \in UpdReqs : CascadeFails(c)
    \/ \E id \in Ids : getRecordById(id)
    \/ FindSameEmailRecords
    \/ FindUserDetails
    \/ getRecordByIdFails

SpecRead == InitUpdate /\ [][NextRead]_vars

(***************************************************************************)
(* Claims about the list handler's paging.                                 *)
(***************************************************************************)
Answered(r) == list[r].pc = "done" /\ list[r].res.status = 200

\* the request supplies an Amount range and nothing else: each bound is
\* missing or a number, one of them is a number, no search, no magazine
AmountRangeOnly(q) ==
    /\ q.search \in {Absent, Empty}
    /\ q.magazine \in {Absent, Empty}
    /\ q.minPrice[1] = "num" \/ q.minPrice = Absent
    /\ q.maxPrice[1] = "num" \/ q.maxPrice = Absent
    /\ q.minPrice[1] = "num" \/ q.maxPrice[1] = "num"

\* the response of a request is that of disabled pagination
Unpaged(r) ==
    LET out == list[r].res
    IN  /\ out.page = 1
        /\ out.totalPages = 1
        /\ out.totalRecords = Len(out.records)
        /\ out.totalAmount = SumAmount(out.records)
        /\ (~list[r].hit /\ ~list[r].dirty) =>
               out.records = Find(filter(list[r].query))

\* C2: a request that supplies only an Amount range (a numeric minPrice, a
\* numeric maxPrice, or both) is answered without pagination: page 1 of 1,
\* all matching records whatever page and limit say, their count and the sum
\* of their Amount.
C2_AmountOnlyUnpaged ==
    \A r \in ListReqs :
        (Answered(r) /\ AmountRangeOnly(list[r].query)) => Unpaged(r)

\* what the claim says page and limit are, read off the raw parameter
Effective(raw, default) ==
    IF raw \in {Absent, NonNumeric, Num(0)} THEN default ELSE raw[2]

\* C3: outside amount-filter-only mode page defaults to 1 and limit to 200
\* (parameter absent, non-numeric or 0), the response echoes page, records
\* are the matches at positions (page-1)*limit .. (page-1)*limit+limit-1,
\* totalRecords counts all matches and totalPages = ceil(totalRecords/limit).
C3_Paged ==
    \A r \in ListReqs :
        (Answered(r) /\ ~list[r].hit /\ ~isAmountFilterOnly(list[r].query)) =>
            LET q == list[r].query
                out == list[r].res
                P == Effective(q.page, 1)
                L == Effective(q.limit, 200)
                all == Find(filter(q))
                first == (P - 1) * L
            IN  /\ out.page = P
                /\ Len(out.records) <= L
                /\ (out.totalPages - 1) * L < out.totalRecords
                /\ out.totalRecords <= out.totalPages * L
                /\ ~list[r].dirty =>
                       /\ out.totalRecords = Len(all)
                       /\ \A i \in 1..Len(all) :
                              (first <= i - 1 /\ i - 1 <= first + L - 1) =>
                                  /\ i - first <= Len(out.records)
                                  /\ out.records[i - first] = all[i]
                       /\ \A j \in 1..Len(out.records) :
                              j + first <= Len(all)

\* a paged answer to a search with an Amount range: the second page of one
\* record each, taken from two matches
C3_Witness ==
    \E r \in ListReqs :
        /\ Answered(r) /\ ~list[r].hit /\ ~list[r].dirty
        /\ search(list[r].query) # Empty
        /\ isFinite(minPrice(list[r].query))
        /\ list[r].res.page = 2
        /\ Len(list[r].res.records) = 1
        /\ list[r].res.totalPages = 2

(***************************************************************************)
(* Claims about the cache of the list handler.                             *)
(***************************************************************************)
SameQuery(r1, r2) == r1 # r2 /\ list[r1].query = list[r2].query

Apart(r1, r2) ==
    IF list[r1].at >= list[r2].at THEN list[r1].at - list[r2].at
    ELSE list[r2].at - list[r1].at

\* C1 as stated: two requests with identical parameters issued less than 5
\* minutes apart receive the identical response, whatever was written
\* between them.  (Requests that raced another miss on the key, or were
\* served an entry stored by one that did, are left out: see C10.)
C1_IdenticalWithinFiveMinutes ==
    \A r1, r2 \in ListReqs :
        ( /\ SameQuery(r1, r2) /\ Answered(r1) /\ Answered(r2)
          /\ ~list[r1].raced /\ ~list[r2].raced
          /\ Apart(r1, r2) < TTL )
        => list[r1].res = list[r2].res

\* a lookup less than 5 minutes after the entry of its key was stored is
\* answered with the stored response and leaves the cache alone; a lookup
\* with no entry, or more than 5 minutes after it was stored, recomputes
LookupByAge ==
    \A r \in ListReqs, q \in ListQueries :
        GetRecords(r, q) =>
            LET key == cacheKey(q)
            IN  /\ (key \in DOMAIN cache /\ now - cache[key].storedAt < TTL) =>
                      /\ list'[r].pc = "done"
                      /\ list'[r].res = cache[key].value
                      /\ cache' = cache
                /\ (key \notin DOMAIN cache \/ now - cache[key].storedAt > TTL) =>
                      list'[r].pc = "find"

\* for 5 minutes after it was stored an entry stays, and nothing but the put
\* of a request for its key changes it: no write to the store invalidates it
EntryKept ==
    \A k \in DOMAIN cache :
        (now' - cache[k].storedAt < TTL) =>
            /\ k \in DOMAIN cache'
            /\ cache'[k] # cache[k] =>
                   \E r \in ListReqs :
                       PutAndRespond(r) /\ cacheKey(list[r].query) = k

\* a response that was not served from the cache is that of the store as it
\* is, until the next write lands
Recomputed(r) ==
    (Answered(r) /\ ~list[r].hit /\ ~list[r].dirty) =>
        LET all == Find(filter(list[r].query))
        IN  /\ list[r].res.totalRecords = Len(all)
            /\ list[r].res.totalAmount = SumAmount(all)

\* C1, amended: requests are answered from the entry of their key for the 5
\* minutes after it was stored, whatever is created, updated or deleted in
\* that time, and from the store once the entry is older than 5 minutes.
C1_CachedForTTL ==
    /\ [][LookupByAge]_vars
    /\ [][EntryKept]_vars
    /\ [](\A r \in ListReqs : Recomputed(r))

\* one request was served a stale entry, and an identical one, less than 5
\* minutes later but after the entry expired, an answer from the store
C1_Witness ==
    \E r1, r2 \in ListReqs :
        /\ SameQuery(r1, r2) /\ Answered(r1) /\ Answered(r2)
        /\ list[r1].hit /\ ~list[r2].hit
        /\ ~list[r1].raced /\ ~list[r2].raced
        /\ list[r2].at > list[r1].at
        /\ list[r2].at - list[r1].at < TTL
        /\ list[r1].res # list[r2].res

\* two requests for one key that both missed the cache and computed at the
\* same time, both answered
RacedPair(r1, r2) ==
    /\ SameQuery(r1, r2) /\ Answered(r1) /\ Answered(r2)
    /\ ~list[r1].hit /\ ~list[r2].hit
    /\ r2 \in list[r1].racedWith

\* C10 as stated: two identical requests that both miss and compute
\* concurrently put equivalent values under the key, in every interleaving,
\* a record write between the two computations included.
C10_RaceWritesEqualValues ==
    \A r1, r2 \in ListReqs :
        RacedPair(r1, r2) => list[r1].res = list[r2].res

\* a put stores the response of the request that makes it, under its key
\* alone, replacing what was there
PutStoresOwnResponse ==
    \A r \in ListReqs :
        PutAndRespond(r) =>
            LET key == cacheKey(list[r].query)
            IN  /\ key \in DOMAIN cache'
                /\ cache'[key].value = list'[r].res
                /\ \A k \in DOMAIN cache' \ {key} :
                       k \in DOMAIN cache /\ cache'[k] = cache[k]

\* C10, amended: both requests put a whole response of their own under the
\* key, the later put replacing the earlier, and the two responses are equal
\* when no record write lands while the two compute.
C10_RaceLastPutWins ==
    /\ [][PutStoresOwnResponse]_vars
    /\ [](\A r1, r2 \in ListReqs :
            (RacedPair(r1, r2) /\ ~list[r1].dirty /\ ~list[r2].dirty) =>
                list[r1].res = list[r2].res)

\* both requests of a race are answered with no write around them, and the
\* entry of their key holds the response
C10_Witness ==
    \E r1, r2 \in ListReqs :
        /\ RacedPair(r1, r2) /\ ~list[r1].dirty /\ ~list[r2].dirty
        /\ list[r1].res.totalRecords > 0
        /\ cacheKey(list[r1].query) \in DOMAIN cache
        /\ cache[cacheKey(list[r1].query)].value = list[r2].res

(***************************************************************************)
(* Claims about createRecord, getRecordById and deleteRecord, under        *)
(* SpecCrud.                                                               *)
(***************************************************************************)
\* the body breaks recordSchema
Invalid(body) ==
    \/ \E k \in Range(SchemaKeys) : Violation(body, k) # ""
    \/ ~(DOMAIN body \subseteq Range(SchemaKeys) \cup OptionalKeys)

\* the error names a violated constraint that no violated constraint precedes
NamesFirstViolation(error, body) ==
    (\E k \in Range(SchemaKeys) : Violation(body, k) # "") =>
        \E i \in DOMAIN SchemaKeys :
            /\ error = <<SchemaKeys[i], Violation(body, SchemaKeys[i])>>
            /\ error[2] # ""
            /\ \A j \in 1..(i - 1) : Violation(body, SchemaKeys[j]) = ""

CreateAnswers(body) ==
    IF Invalid(body)
    THEN /\ res'.status = 400
         /\ NamesFirstViolation(res'.error, body)
         /\ Record' = Record
         /\ nextId' = nextId
    ELSE /\ res'.status = 201
         /\ \E i \in Ids :
               /\ Record[i] = NoRecord
               /\ Record'[i] # NoRecord
               /\ Record'[i]._id = i
               /\ res'.savedRecord = Record'[i]
               /\ \A j \in Ids \ {i} : Record'[j] = Record[j]

\* a lookup of a stored record reads that record and does not answer 404
LookupReads ==
    \A id \in Ids :
        (getRecordById(id) /\ Record[id] # NoRecord) =>
            /\ byId'.pc = "findSame"
            /\ byId'.record = Record[id]

\* a lookup that answers 200 carries the record it read
LookupAnswers ==
    FindUserDetails =>
        /\ byId'.res.status = 200
        /\ byId'.res.record = byId.record
        /\ byId'.res.record._id = byId.id

\* C8: createRecord validates before it writes: a body that breaks the
\* schema gets a 400 naming the first violated constraint and the store is
\* unchanged; a valid body gets a 201 and adds exactly one record, and a
\* later getRecordById on its identifier reads and returns that record while
\* it is stored.
C8_ValidateBeforeWrite ==
    /\ [][res'.status \in {201, 400} =>   \* the answers of createRecord
              \A body \in CrudBodies : createRecord(body) => CreateAnswers(body)]_vars
    /\ [][LookupReads]_vars
    /\ [][LookupAnswers]_vars

\* a created record has been looked up and returned
C8_Witness ==
    /\ res.status = 201
    /\ byId.pc = "done"
    /\ byId.res.status = 200
    /\ byId.res.record = res.savedRecord
    /\ Record[byId.id] = res.savedRecord

\* identifiers are handed out in order, so these are the deleted ones
Deleted(id) == id < nextId /\ Record[id] = NoRecord

DeleteAnswers(id) ==
    IF Record[id] = NoRecord
    THEN /\ res' = [op |-> "delete", status |-> 404]
         /\ Record' = Record
    ELSE /\ res' = [op |-> "delete", status |-> 200]
         /\ Record'[id] = NoRecord
         /\ \A j \in Ids \ {id} : Record'[j] = Record[j]

\* C9: deleteRecord on an identifier with no record answers 404 and leaves
\* the store unchanged; on a stored record it answers 200 and removes
\* exactly that record, the identifier never holds a record again, and
\* every later getRecordById on it answers 404 (a second deleteRecord too).
C9_DeleteThenNotFound ==
    /\ [][\A id \in Ids : deleteRecord(id) => DeleteAnswers(id)]_vars
    /\ [][\A id \in Ids : Deleted(id) => Deleted(id)']_vars
    /\ [][\A id \in Ids : (Deleted(id) /\ getRecordById(id)) =>
              byId'.pc = "done" /\ byId'.res.status = 404]_vars

\* record 1 was created and deleted; a lookup and a further delete got 404
C9_Witness ==
    /\ Deleted(1)
    /\ byId = [pc |-> "done", id |-> 1, res |-> [status |-> 404]]
    /\ res = [op |-> "delete", status |-> 404]

\* C7: an updateRecord on an identifier with no record answers 404 and
\* modifies no record and no User (the partial variant, identifier in the
\* query, with at least one field to set).
C7_MissingIdIs404 ==
    [][\A id \in Ids, fields \in CrudUpdates :
          ( /\ Record[id] = NoRecord
            /\ DOMAIN filteredUpdateFields(fields) # {}
            /\ updateRecordPartial(id, fields) ) =>
              /\ res'.status = 404
              /\ Record' = Record
              /\ User' = User]_vars

(***************************************************************************)
(* Claims about the cascade updateRecord, under SpecUpdate.                *)
(***************************************************************************)
\* request c has answered with this status
UpdAnswered(c, status) == upd[c].pc = "done" /\ upd[c].res.status = status

\* the stored record i holds the payload's value for every field of the
\* payload that a record has
HoldsPayload(i, data) ==
    \A k \in DOMAIN data \cap DocFields : Record[i][k] = data[k]

\* C4: after a cascade updateRecord on a stored record has answered 200
\* with no other writer interleaved, every record whose Email equals the
\* target record's Email holds the payload's value for every field of the
\* payload.
C4_CascadeReachesSameEmail ==
    \A c \in UpdReqs :
        ( /\ UpdAnswered(c, 200)
          /\ ~upd[c].disturbed
          /\ Record[upd[c].id] # NoRecord ) =>
            \A i \in Ids :
                (Record[i] # NoRecord /\ Record[i].Email = Record[upd[c].id].Email)
                    => HoldsPayload(i, upd[c].data)

\* a cascade on record 1 has answered 200 and its Magazine is on record 2,
\* which shares the Email
C4_Witness ==
    \E c \in UpdReqs :
        /\ UpdAnswered(c, 200)
        /\ ~upd[c].disturbed
        /\ upd[c].id = 1
        /\ upd[c].data = [Magazine |-> Elle, Stage_Name |-> <<"S", "2">>]
        /\ upd[c].written = {1, 2}
        /\ Record[1].Email = Record[2].Email
        /\ Record[2].Magazine = Elle

\* the payload key that feeds each field of a User
UserFieldKey ==
    [ Model_Type |-> "Model_Type", Stage_Name |-> "Stage_Name",
      Model_Insta_Link |-> "Model_Insta_Link", Email_Address |-> "Email" ]

\* request c has written its User and no other writer came in between
UserUpdated(c) ==
    /\ UpdAnswered(c, 200)
    /\ upd[c].userDetails # NoUser
    /\ ~upd[c].disturbed

\* C5 as stated: after a successful cascade the matching User has each of
\* Model_Type, Stage_Name, Model_Insta_Link and Email_Address set to the
\* payload's value when the payload supplies the field, and left at its
\* previous value when the payload omits it.
C5_UserTakesSuppliedFields ==
    \A c \in UpdReqs :
        UserUpdated(c) =>
            LET data == upd[c].data
                previous == upd[c].userDetails
                user == User[previous._id]
            IN  \A f \in DOMAIN UserFieldKey :
                    user[f] = IF UserFieldKey[f] \in DOMAIN data
                              THEN data[UserFieldKey[f]]
                              ELSE previous[f]

\* C5, amended: after a successful cascade the matching User has each of
\* Model_Type, Stage_Name, Model_Insta_Link set to the payload's value when
\* the payload supplies a non-empty one, and Email_Address to a non-empty
\* Email of the payload; a field the payload omits or supplies as the empty
\* string keeps its previous value.  The update modifies no other User, and
\* when no User matches, none is modified or created.
C5_UserTakesNonEmptyFields ==
    /\ [](\A c \in UpdReqs :
            UserUpdated(c) =>
                LET data == upd[c].data
                    previous == upd[c].userDetails
                    user == User[previous._id]
                IN  \A f \in DOMAIN UserFieldKey :
                        user[f] = IF /\ UserFieldKey[f] \in DOMAIN data
                                     /\ data[UserFieldKey[f]] # Empty
                                  THEN data[UserFieldKey[f]]
                                  ELSE previous[f])
    /\ [][\A c \in UpdReqs :
            /\ UpdateUser(c) =>
                 \A u \in Uids \ {upd[c].userDetails._id} : User'[u] = User[u]
            /\ FindUser(c) => User' = User]_vars
    /\ [][\A u \in Uids : User[u] = NoUser => User'[u] = NoUser]_vars

\* a payload with an empty Stage_Name and a Model_Type has updated a User:
\* the Model_Type is the payload's, the Stage_Name is the previous one
C5_Witness ==
    \E c \in UpdReqs :
        /\ UserUpdated(c)
        /\ upd[c].data = [Stage_Name |-> Empty, Model_Type |-> <<"T", "2">>]
        /\ User[upd[c].userDetails._id].Model_Type = <<"T", "2">>
        /\ User[upd[c].userDetails._id].Stage_Name = upd[c].userDetails.Stage_Name
        /\ upd[c].userDetails.Stage_Name # Empty

\* request c failed after its primary update
FailedAfterPrimary(c) == UpdAnswered(c, 500) /\ upd[c].id \in upd[c].written

\* C6 as stated: when a cascade fails after the primary update, the answer
\* is a 500, the primary record keeps the payload's values and no sibling
\* record has been modified.
C6_FailureLeavesSiblings ==
    \A c \in UpdReqs :
        FailedAfterPrimary(c) =>
            /\ upd[c].written = {upd[c].id}
            /\ (~upd[c].disturbed => HoldsPayload(upd[c].id, upd[c].data))

\* C6, amended: when a cascade fails after the primary update, the answer
\* is a 500, the primary record keeps the payload's values (no
\* rollback), every sibling the request has written holds the payload's
\* values and the others are as they were, and no User has been modified:
\* a request writes a User only in the step in which it answers 200.
C6_FailureKeepsWrites ==
    /\ [](\A c \in UpdReqs :
            (FailedAfterPrimary(c) /\ ~upd[c].disturbed) =>
                \A i \in upd[c].written :
                    Record[i] # NoRecord /\ HoldsPayload(i, upd[c].data))
    /\ [][\A c \in UpdReqs :
            /\ (upd[c].pc # "done" /\ UpdAnswered(c, 500)') => User' = User
            /\ (\E u \in Uids : User'[u] # User[u]) =>
                 \E d \in UpdReqs : UpdateUser(d) /\ UpdAnswered(d, 200)']_vars

\* a cascade has failed after a sibling of the primary record was written
C6_Witness ==
    \E c \in UpdReqs :
        /\ FailedAfterPrimary(c)
        /\ ~upd[c].disturbed
        /\ upd[c].written # {upd[c].id}
        /\ \A i \in upd[c].written : HoldsPayload(i, upd[c].data)

\* the cascade variant of C7: a missing identifier gets a 404 and nothing
\* is modified
CascadeMissingIdIs404 ==
    [][\A c \in UpdReqs, id \in Ids, data \in UpdateBodies :
          (Record[id] = NoRecord /\ updateRecord(c, id, data)) =>
              /\ UpdAnswered(c, 404)'
              /\ Record' = Record
              /\ User' = User]_vars

(***************************************************************************)
(* Claims about the filter of getRecords, under SpecPage.                  *)
(***************************************************************************)
\* text occurs in value as it stands, letters compared without case
SubstringI(text, value) ==
    \E i \in 1..(Len(value) - Len(text) + 1) :
        \A j \in 1..Len(text) : Lower(text[j]) = Lower(value[i + j - 1])

\* the records the claim says a query selects
Selected(q, doc) ==
    /\ \E key \in StringFields : SubstringI(search(q), doc[key])
    /\ doc.Full_Name # UndefinedUndefined
    /\ magazineName(q) # Empty => SubstringI(magazineName(q), doc.Magazine)
    /\ minPrice(q).k = "fin" => doc.Amount >= minPrice(q).v
    /\ minPrice(q).k = "inf" => FALSE
    /\ maxPrice(q).k = "fin" => doc.Amount <= maxPrice(q).v

SelectedDocs(q) ==
    SelectSeq(AllDocs, LAMBDA doc : doc # NoRecord /\ Selected(q, doc))

\* an answer computed from the store with no write around it
FromStore(r) == Answered(r) /\ ~list[r].hit /\ ~list[r].dirty

\* the query's texts hold no character the regular expression reads as
\* anything but itself
PlainText(q) ==
    \A t \in {search(q), magazineName(q)} : \A j \in 1..Len(t) : t[j] # "."

\* C11: the filter selects exactly the records in which search is a
\* case-insensitive substring of a string field, whose Full_Name is not
\* 'undefined undefined', whose Magazine holds magazine when given, and
\* whose Amount lies within the numeric bounds, both inclusive.
C11_FilterSelectsSubstring ==
    \A r \in ListReqs :
        FromStore(r) =>
            /\ list[r].res.totalRecords = Len(SelectedDocs(list[r].query))
            /\ \A i \in 1..Len(list[r].res.records) :
                   Selected(list[r].query, list[r].res.records[i])

\* the same for queries whose texts are plain
FilterSelectsPlainSubstring ==
    \A r \in ListReqs :
        (FromStore(r) /\ PlainText(list[r].query)) =>
            /\ list[r].res.totalRecords = Len(SelectedDocs(list[r].query))
            /\ \A i \in 1..Len(list[r].res.records) :
                   Selected(list[r].query, list[r].res.records[i])

(***************************************************************************)
(* Claims about reads that run beside a cascade, under SpecRead.           *)
(***************************************************************************)
\* the stored records that hold this Email, in _id order
SameEmailDocs(email) ==
    SelectSeq(AllDocs, LAMBDA doc : doc # NoRecord /\ doc.Email = email)

\* a cascade has written some of the records it found and not yet others
MidCascade(c) ==
    /\ upd[c].pc = "updateSiblings"
    /\ upd[c].pending # {}
    /\ upd[c].written # {}

\* each sibling write lands on its own: it changes the one record it names
WritesLandOneByOne ==
    \A c \in UpdReqs, i \in Ids :
        SiblingUpdate(c, i) => \A j \in Ids \ {i} : Record'[j] = Record[j]

\* the read of a lookup returns the records as the store holds them then
ReadsStoreAsItIs ==
    FindSameEmailRecords =>
        byId'.sameEmailRecords = SameEmailDocs(byId.record.Email)

\* C12: the cascade's sibling writes land one by one and reads are not
\* held back while they do: a getRecordById that runs while a cascade is
\* under way reads the store as it is then (so it can return records of one
\* Email of which some hold the payload's values and others the old ones).
C12_ReadsNotSerialized ==
    /\ [][WritesLandOneByOne]_vars
    /\ [][ReadsStoreAsItIs]_vars
    /\ [](byId.pc = "findSame" => ENABLED FindSameEmailRecords)

\* a lookup has returned two records of one Email, one with the Magazine of
\* the payload of a cascade that is still under way, one with the old one
C12_Witness ==
    \E c \in UpdReqs :
        /\ MidCascade(c)
        /\ upd[c].data.Magazine = Elle
        /\ byId.pc = "done"
        /\ byId.res.status = 200
        /\ \E i, j \in 1..Len(byId.res.sameEmailRecords) :
              /\ byId.res.sameEmailRecords[i].Email = byId.res.sameEmailRecords[j].Email
              /\ byId.res.sameEmailRecords[i].Magazine = Elle
              /\ byId.res.sameEmailRecords[j].Magazine = Vogue
              /\ byId.res.sameEmailRecords[i]._id \in upd[c].written
              /\ byId.res.sameEmailRecords[j]._id \in upd[c].pending

(***************************************************************************)
(* Claims about the three queries of the paged branch, under SpecPage.     *)
(***************************************************************************)
\* a paged answer that was computed, not served from the cache
PagedMiss(r) ==
    Answered(r) /\ ~list[r].hit /\ ~isAmountFilterOnly(list[r].query)

\* what holds of page, count and sum when they are taken from one and the
\* same set of matches: the page has the length the count leaves for it, and
\* a page that holds every match has the sum of the Amounts
OfOneStoreState(out, q) ==
    LET rest == out.totalRecords - skip(q)
    IN  /\ Len(out.records) = Min(limit(q), IF rest > 0 THEN rest ELSE 0)
        /\ (skip(q) = 0 /\ out.totalRecords <= limit(q)) =>
               out.totalAmount = SumAmount(out.records)

\* C13 as stated: a paged response computed on a cache miss is consistent
\* with a single store state, whatever is written between the handler's
\* find, count and aggregate queries.
C13_OneStoreState ==
    \A r \in ListReqs :
        PagedMiss(r) => OfOneStoreState(list[r].res, list[r].query)

\* each of the three queries reads the store as it is when it runs
EachQueryReadsStore ==
    \A r \in ListReqs :
        LET q == list[r].query
            all == Find(filter(q))
        IN  /\ FindPage(r) =>
                   list'[r].records = SkipLimit(all, skip(q), limit(q))
            /\ CountDocuments(r) => list'[r].totalRecords = Len(all)
            /\ Aggregate(r) => list'[r].sumOfAmount = SumAmount(all)

\* C13, amended: a paged response computed on a cache miss holds the page
\* read by find, the count read by countDocuments and the sum read by
\* aggregate, each of the store as it was when that query ran; the three
\* are of a single store state when no write lands between them, and then
\* totalRecords is the number of matches, totalAmount the sum of their
\* Amount and records the requested page of them.
C13_OneStoreStateIfNoWrite ==
    /\ [][EachQueryReadsStore]_vars
    /\ [](\A r \in ListReqs :
            (PagedMiss(r) /\ ~list[r].dirty) =>
                LET q == list[r].query
                    all == Find(filter(q))
                IN  /\ OfOneStoreState(list[r].res, q)
                    /\ list[r].res.totalRecords = Len(all)
                    /\ list[r].res.totalAmount = SumAmount(all)
                    /\ list[r].res.records = SkipLimit(all, skip(q), limit(q)))

\* the second page of one record out of two matches, with their count and sum
C13_Witness ==
    \E r \in ListReqs :
        /\ PagedMiss(r) /\ ~list[r].dirty
        /\ list[r].res.page = 2
        /\ Len(list[r].res.records) = 1
        /\ list[r].res.totalRecords = 2
        /\ list[r].res.totalAmount = 3

(***************************************************************************)
(* Claims about a getRecords request that fails, under SpecList.           *)
(***************************************************************************)
\* request r has answered 500
Failed(r) == list[r].pc = "done" /\ list[r].res.status = 500

\* the step in which a request fails answers 500 and leaves the cache as it is
FailureLeavesCache ==
    \A r \in ListReqs :
        GetRecordsFails(r) => (cache' = cache /\ Failed(r)')

\* an identical request that follows a failed one, with no entry stored for
\* the key in the meantime, recomputes from the store
RetryRecomputes ==
    \A r \in ListReqs, q \in ListQueries :
        ( /\ Failed(r)
          /\ list[r].query = q
          /\ cacheKey(q) \notin DOMAIN cache
          /\ GetRecords(r, q) ) =>
              (list'[r].pc = "find" /\ ~list'[r].hit)

\* C14: a getRecords request that fails with a store error answers 500 and
\* stores no entry for its key: the cache holds no error and no request is
\* served one from it, an entry found under the key of a failed request was
\* stored by another request after the failed one looked the key up, and the
\* next identical request recomputes from the store.
C14_ErrorNotCached ==
    /\ [][FailureLeavesCache]_vars
    /\ [][RetryRecomputes]_vars
    /\ [](\A k \in DOMAIN cache : cache[k].value.status = 200)
    /\ [](\A r \in ListReqs :
            /\ (list[r].pc = "done" /\ list[r].hit) => list[r].res.status = 200
            /\ (Failed(r) /\ cacheKey(list[r].query) \in DOMAIN cache) =>
                   cache[cacheKey(list[r].query)].storedAt >= list[r].at)

\* a request has failed and a later identical one was answered from the
\* store, its answer now the entry of the key
C14_Witness ==
    \E r1, r2 \in ListReqs :
        /\ SameQuery(r1, r2)
        /\ Failed(r1)
        /\ Answered(r2) /\ ~list[r2].hit /\ ~list[r2].raced
        /\ list[r2].at > list[r1].at
        /\ cacheKey(list[r2].query) \in DOMAIN cache
        /\ cache[cacheKey(list[r2].query)].value = list[r2].res

====
